---- MODULE Spec2Model ----
(***************************************************************************)
(* AI loan obligation tracker: the risk scorer (utils/risk_scoring.py),    *)
(* the deadline parser (extractor/deadline_parser.py), the obligation      *)
(* extractor (extractor/obligation_extractor.py) and the dashboard's       *)
(* "Extract Obligations" handler (app.py).                                 *)
(*                                                                         *)
(* A Python dict is a function from its keys to their values; a missing    *)
(* key is a key outside DOMAIN.  A Python list is a sequence.              *)
(***************************************************************************)
EXTENDS Integers, Sequences, FiniteSets, TLC

VARIABLES
    today,      \* datetime.today(): [day |-> days since the epoch, tod |-> 0 at midnight, 1 later]
    hashseed,   \* the key of the interpreter's string hash, drawn when the process starts
    session,    \* st.session_state: [obligations, processed_text]
    call,       \* the function applied last ("none" before any call)
    arg,        \* the arguments it was applied to
    ret         \* what it returned

vars == <<today, hashseed, session, call, arg, ret>>

----------------------------------------------------------------------------
(* Bounds of the model. *)

\* longest obligation list handed to the list functions of the risk scorer
MaxObs == 2
\* categorize_risk_level is applied to every score from -ScoreSlack to 100 + ScoreSlack
ScoreSlack == 5
\* longest obligation list handed to _deduplicate_obligations
MaxDedup == 3
\* most phrases in a sentence handed to parse_deadline
MaxPhrases == 3
\* most sentences in a text handed to the dashboard
MaxSentences == 1
\* days the dashboard's session lasts after the day it starts on
MaxDays == 2
\* most atoms in a sentence handed to the classifiers of the extractor
MaxAtoms == 3
\* most fragments in a text handed to the splitter and to extract_obligations
MaxFragments == 2
\* most days ahead of today that a deadline handed to get_compliance_status lies
MaxAhead == 9

----------------------------------------------------------------------------
(* Python helpers. *)

\* dict.get(key, default)
Get(d, key, default) == IF key \in DOMAIN d THEN d[key] ELSE default

\* d[key] = value
SetKey(d, key, value) ==
    [k \in DOMAIN d \cup {key} |-> IF k = key THEN value ELSE d[k]]

\* app.py lines 76-80: the session state of a new session
InitialSession == [obligations |-> <<>>, processed_text |-> <<>>]

Min(a, b) == IF a < b THEN a ELSE b
Max(a, b) == IF a > b THEN a ELSE b

----------------------------------------------------------------------------
(* utils/risk_scoring.py *)

\* type_multipliers.get(type, 0.5), in tenths
TypeMultiplier10(type) ==
    CASE type = "Financial Covenant" -> 10
      [] type = "Reporting"          -> 6
      [] type = "Notification"       -> 4
      [] OTHER                       -> 5

\* risk_level_multipliers.get(risk_level, 1.0), in tenths
RiskLevelMultiplier10(level) ==
    CASE level = "High"   -> 15
      [] level = "Medium" -> 10
      [] level = "Low"    -> 5
      [] OTHER            -> 10

calculate_deadline_risk(compliance_status) ==
    IF compliance_status = "Missed" THEN 30
    ELSE IF compliance_status = "Due Soon" THEN 15
    ELSE IF compliance_status = "Compliant" THEN 0
    ELSE 5

\* base_score after line 42, in hundredths.  The float products of the code are
\* exact: 0.6 * 50 and 0.4 * 50 round to 30.0 and 20.0, and every later product
\* and sum is a multiple of 0.5 below 2^53.
BaseScore100(obligation) ==
    TypeMultiplier10(Get(obligation, "type", "")) * 50
        * RiskLevelMultiplier10(Get(obligation, "risk_level", "Medium"))
    + 100 * calculate_deadline_risk(Get(obligation, "compliance_status", ""))

\* the mutant of calculate_risk_score that rounds to nearest instead of truncating
calculate_risk_score_rounding(obligation) ==
    Min(100, Max(0, (BaseScore100(obligation) + 50) \div 100))

\* the mutant of calculate_risk_score that forgets the upper clamp
calculate_risk_score_unclamped(obligation) ==
    Max(0, BaseScore100(obligation) \div 100)

\* min(100, max(0, int(base_score))): int() truncates toward zero, and
\* base_score is never negative, so truncation is \div
calculate_risk_score(obligation) ==
    Min(100, Max(0, BaseScore100(obligation) \div 100))

\* the mutant of categorize_risk_level whose bands include their upper bound
categorize_risk_level_inclusive(score) ==
    IF score <= 30 THEN "Low"
    ELSE IF score <= 70 THEN "Medium"
    ELSE "High"

categorize_risk_level(score) ==
    IF score < 30 THEN "Low"
    ELSE IF score < 70 THEN "Medium"
    ELSE "High"

\* the mutant of the loop body that also overwrites risk_level with the category
UpdateRiskAndLevel(obligation) ==
    LET risk_score == calculate_risk_score(obligation)
    IN  SetKey(SetKey(SetKey(obligation, "risk_score", risk_score),
                      "risk_category", categorize_risk_level(risk_score)),
               "risk_level", categorize_risk_level(risk_score))

\* one iteration of the loop of update_obligation_risks
UpdateRisk(obligation) ==
    LET risk_score == calculate_risk_score(obligation)
    IN  SetKey(SetKey(obligation, "risk_score", risk_score),
               "risk_category", categorize_risk_level(risk_score))

update_obligation_risks(obligations) ==
    [i \in 1..Len(obligations) |-> UpdateRisk(obligations[i])]

\* the test of the comprehension of get_high_risk_obligations; SelectSeq is
\* the list comprehension [ob for ob in obligations if ...]
IsHighRisk(ob) == categorize_risk_level(calculate_risk_score(ob)) = "High"

\* the mutant of get_high_risk_obligations that trusts the stored risk_category
get_high_risk_obligations_stored(obligations) ==
    LET Stored(ob) == Get(ob, "risk_category", "") = "High"
    IN  SelectSeq(obligations, Stored)

get_high_risk_obligations(obligations) == SelectSeq(obligations, IsHighRisk)

\* the mutant of get_upcoming_deadlines that looks no further than days_ahead,
\* Due Soon being a deadline within 7 days
get_upcoming_deadlines_within(obligations, days_ahead) ==
    LET IsDueSoon(obligation) == Get(obligation, "compliance_status", "") = "Due Soon"
    IN  IF days_ahead < 7 THEN <<>> ELSE SelectSeq(obligations, IsDueSoon)

\* days_ahead is never read
get_upcoming_deadlines(obligations, days_ahead) ==
    LET IsDueSoon(obligation) == Get(obligation, "compliance_status", "") = "Due Soon"
    IN  SelectSeq(obligations, IsDueSoon)

----------------------------------------------------------------------------
(* Dates.  A date is its proleptic Gregorian ordinal (date.toordinal(): day 1 *)
(* is 0001-01-01); today carries the date and whether any time has passed     *)
(* since midnight.  A string that holds a deadline is a record: one of the    *)
(* literal strings of the code, or digits in the form Y-M-D.                  *)

IsLeap(y) == y % 4 = 0 /\ (y % 100 # 0 \/ y % 400 = 0)

\* calendar.monthrange(y, m)[1]
DaysInMonth(y, m) ==
    IF m = 2 THEN (IF IsLeap(y) THEN 29 ELSE 28)
    ELSE IF m \in {4, 6, 9, 11} THEN 30
    ELSE 31

DaysBeforeYear(y) ==
    (y - 1) * 365 + (y - 1) \div 4 - (y - 1) \div 100 + (y - 1) \div 400

RECURSIVE DaysBeforeMonth(_, _)
DaysBeforeMonth(y, m) ==
    IF m <= 1 THEN 0 ELSE DaysBeforeMonth(y, m - 1) + DaysInMonth(y, m - 1)

\* datetime(y, m, d).toordinal()
ToOrdinal(y, m, d) == DaysBeforeYear(y) + DaysBeforeMonth(y, m) + d

\* date.fromordinal(n) as <<year, month, day>>
FromOrdinal(n) ==
    LET y == CHOOSE c \in ((n - 1) \div 366 + 1)..((n - 1) \div 365 + 1) :
                 DaysBeforeYear(c) < n /\ n <= DaysBeforeYear(c + 1)
        r == n - DaysBeforeYear(y)
        m == CHOOSE c \in 1..12 :
                 DaysBeforeMonth(y, c) < r /\ r <= DaysBeforeMonth(y, c) + DaysInMonth(y, c)
    IN  <<y, m, r - DaysBeforeMonth(y, m)>>

\* the string literal t
Literal(t) == [form |-> "literal", text |-> t, ymd |-> <<0, 0, 0>>]

\* the string "Y-M-D" written with the digits of y, m and d
DateString(y, m, d) == [form |-> "Y-M-D", text |-> "", ymd |-> <<y, m, d>>]

\* dt.strftime("%Y-%m-%d")
Strftime(dt) ==
    LET ymd == FromOrdinal(dt.day) IN DateString(ymd[1], ymd[2], ymd[3])

\* whether datetime.strptime(s, "%Y-%m-%d") parses s (it raises ValueError otherwise)
StrptimeParses(s) ==
    /\ s.form = "Y-M-D"
    /\ s.ymd[1] \in 1..9999
    /\ s.ymd[2] \in 1..12
    /\ s.ymd[3] \in 1..DaysInMonth(s.ymd[1], s.ymd[2])

\* datetime.strptime(s, "%Y-%m-%d"): midnight of that date
Strptime(s) == [day |-> ToOrdinal(s.ymd[1], s.ymd[2], s.ymd[3]), tod |-> 0]

\* dt + timedelta(days=n); None when the sum leaves datetime's range (OverflowError)
None == [day |-> 0, tod |-> 0]

PlusDays(dt, n) ==
    IF dt.day + n < 1 \/ dt.day + n > DaysBeforeYear(10000)
    THEN None
    ELSE [day |-> dt.day + n, tod |-> dt.tod]

\* (a - b).days: whole days, rounded down
DiffDays(a, b) == (a.day - b.day) - (IF a.tod < b.tod THEN 1 ELSE 0)

----------------------------------------------------------------------------
(* Text.  A sentence is the sequence of its atoms: the words, and the fixed  *)
(* phrases, that single spaces separate in it.  The tables below state, for  *)
(* the atoms of the vocabulary, what the regular expressions and substring   *)
(* tests of the code find in them.                                           *)
\* LEXICON-BEGIN
Vocabulary == 
    {"promptly", "within", "by", "30", "5", "2", "days", "Days", "months", "weeks",
    "years", "quarters", "after", "of", "before", "end of", "month", "Month", "quarter",
    "year", "each", "month end", "year end", "quarter end", "monthly", "closing", "the",
    "March", "15,", "2024", "abc", "The", "Borrower", "borrower", "shall", "maintain",
    "leverage ratio", "deliver", "statements", "notify", "Lender", "default", "fee",
    "compliance", "report", "change", "financial covenant", "financial statements",
    "minimum", "equity", "notice of", "material adverse", "waiver", "quarterly",
    "annual", "upon", "0", "9", "3000000", ".", ";"}

\* the characters of the atom
CharsOf(a) ==
    CASE a = "promptly" -> <<"p", "r", "o", "m", "p", "t", "l", "y">>
      [] a = "within" -> <<"w", "i", "t", "h", "i", "n">>
      [] a = "by" -> <<"b", "y">>
      [] a = "30" -> <<"3", "0">>
      [] a = "5" -> <<"5">>
      [] a = "2" -> <<"2">>
      [] a = "days" -> <<"d", "a", "y", "s">>
      [] a = "Days" -> <<"D", "a", "y", "s">>
      [] a = "months" -> <<"m", "o", "n", "t", "h", "s">>
      [] a = "weeks" -> <<"w", "e", "e", "k", "s">>
      [] a = "years" -> <<"y", "e", "a", "r", "s">>
      [] a = "quarters" -> <<"q", "u", "a", "r", "t", "e", "r", "s">>
      [] a = "after" -> <<"a", "f", "t", "e", "r">>
      [] a = "of" -> <<"o", "f">>
      [] a = "before" -> <<"b", "e", "f", "o", "r", "e">>
      [] a = "end of" -> <<"e", "n", "d", " ", "o", "f">>
      [] a = "month" -> <<"m", "o", "n", "t", "h">>
      [] a = "Month" -> <<"M", "o", "n", "t", "h">>
      [] a = "quarter" -> <<"q", "u", "a", "r", "t", "e", "r">>
      [] a = "year" -> <<"y", "e", "a", "r">>
      [] a = "each" -> <<"e", "a", "c", "h">>
      [] a = "month end" -> <<"m", "o", "n", "t", "h", " ", "e", "n", "d">>
      [] a = "year end" -> <<"y", "e", "a", "r", " ", "e", "n", "d">>
      [] a = "quarter end" -> <<"q", "u", "a", "r", "t", "e", "r", " ", "e", "n", "d">>
      [] a = "monthly" -> <<"m", "o", "n", "t", "h", "l", "y">>
      [] a = "closing" -> <<"c", "l", "o", "s", "i", "n", "g">>
      [] a = "the" -> <<"t", "h", "e">>
      [] a = "March" -> <<"M", "a", "r", "c", "h">>
      [] a = "15," -> <<"1", "5", ",">>
      [] a = "2024" -> <<"2", "0", "2", "4">>
      [] a = "abc" -> <<"a", "b", "c">>
      [] a = "The" -> <<"T", "h", "e">>
      [] a = "Borrower" -> <<"B", "o", "r", "r", "o", "w", "e", "r">>
      [] a = "borrower" -> <<"b", "o", "r", "r", "o", "w", "e", "r">>
      [] a = "shall" -> <<"s", "h", "a", "l", "l">>
      [] a = "maintain" -> <<"m", "a", "i", "n", "t", "a", "i", "n">>
      [] a = "leverage ratio" -> <<"l", "e", "v", "e", "r", "a", "g", "e", " ", "r", "a", "t", "i", "o">>
      [] a = "deliver" -> <<"d", "e", "l", "i", "v", "e", "r">>
      [] a = "statements" -> <<"s", "t", "a", "t", "e", "m", "e", "n", "t", "s">>
      [] a = "notify" -> <<"n", "o", "t", "i", "f", "y">>
      [] a = "Lender" -> <<"L", "e", "n", "d", "e", "r">>
      [] a = "default" -> <<"d", "e", "f", "a", "u", "l", "t">>
      [] a = "fee" -> <<"f", "e", "e">>
      [] a = "compliance" -> <<"c", "o", "m", "p", "l", "i", "a", "n", "c", "e">>
      [] a = "report" -> <<"r", "e", "p", "o", "r", "t">>
      [] a = "change" -> <<"c", "h", "a", "n", "g", "e">>
      [] a = "financial covenant" -> <<"f", "i", "n", "a", "n", "c", "i", "a", "l", " ", "c", "o", "v", "e", "n", "a", "n", "t">>
      [] a = "financial statements" -> <<"f", "i", "n", "a", "n", "c", "i", "a", "l", " ", "s", "t", "a", "t", "e", "m", "e", "n", "t", "s">>
      [] a = "minimum" -> <<"m", "i", "n", "i", "m", "u", "m">>
      [] a = "equity" -> <<"e", "q", "u", "i", "t", "y">>
      [] a = "notice of" -> <<"n", "o", "t", "i", "c", "e", " ", "o", "f">>
      [] a = "material adverse" -> <<"m", "a", "t", "e", "r", "i", "a", "l", " ", "a", "d", "v", "e", "r", "s", "e">>
      [] a = "waiver" -> <<"w", "a", "i", "v", "e", "r">>
      [] a = "quarterly" -> <<"q", "u", "a", "r", "t", "e", "r", "l", "y">>
      [] a = "annual" -> <<"a", "n", "n", "u", "a", "l">>
      [] a = "upon" -> <<"u", "p", "o", "n">>
      [] a = "0" -> <<"0">>
      [] a = "9" -> <<"9">>
      [] a = "3000000" -> <<"3", "0", "0", "0", "0", "0", "0">>
      [] a = "." -> <<".">>
      [] a = ";" -> <<";">>

\* atoms that end in (?i)(?:within|after|by|no later than)
LeadAtoms == {"within", "by", "after"}

\* atoms that are \d+
NumberAtoms == {"30", "5", "2", "2024", "0", "9", "3000000"}

\* int(a), for the atoms int() accepts
IntOf(a) ==
    CASE a = "30" -> 30
      [] a = "5" -> 5
      [] a = "2" -> 2
      [] a = "2024" -> 2024
      [] a = "0" -> 0
      [] a = "9" -> 9
      [] a = "3000000" -> 3000000

\* atoms int() accepts (it raises ValueError on the others)
IntAtoms == {"30", "5", "2", "2024", "0", "9", "3000000"}

\* atoms that are (?i)(days?|months?|weeks?|years?)
UnitAtoms == 
    {"days", "Days", "months", "weeks", "years", "month", "Month", "year"}

\* atoms that are (?i)(?:after|of|following)
AfterAtoms == {"after", "of"}

\* atoms that are (?i)(?:before|prior to)
BeforeAtoms == {"before"}

\* atoms that contain (?i)(?:promptly|immediately|as soon as possible|without delay)
ImmediateAtoms == {"promptly"}

\* atoms that end in (?i)"end of"
EndOfAtoms == {"end of"}

\* atoms that end in (?i)"by"
ByAtoms == {"by"}

\* atoms that end in (?i)"within"
WithinAtoms == {"within"}

\* group 1 of (?i)(month|quarter|year|fiscal year|calendar year) matched at the start of the atom, "" when it does not match
PeriodOf(a) ==
    CASE a \in {"months", "month", "month end", "monthly"} -> "month"
      [] a \in {"years", "year", "year end"} -> "year"
      [] a \in {"quarters", "quarter", "quarter end", "quarterly"} -> "quarter"
      [] a \in {"Month"} -> "Month"
      [] OTHER -> ""

\* group 0 of (?i)(?:monthly|quarterly|annually|yearly|semi-annually|bi-annually|event-based) searched in the atom, "" when it does not match
FrequencyWordOf(a) ==
    CASE a \in {"monthly"} -> "monthly"
      [] a \in {"quarterly"} -> "quarterly"
      [] OTHER -> ""

\* group 0 of (?i)days? matched at the start of the atom, "" when it does not match
DaysPrefixOf(a) ==
    CASE a \in {"days"} -> "days"
      [] a \in {"Days"} -> "Days"
      [] OTHER -> ""

\* atoms that are \w+
WordAtoms == 
    {"promptly", "within", "by", "30", "5", "2", "days", "Days", "months", "weeks",
    "years", "quarters", "after", "of", "before", "month", "Month", "quarter", "year",
    "each", "monthly", "closing", "the", "March", "2024", "abc", "The", "Borrower",
    "borrower", "shall", "maintain", "deliver", "statements", "notify", "Lender",
    "default", "fee", "compliance", "report", "change", "minimum", "equity", "waiver",
    "quarterly", "annual", "upon", "0", "9", "3000000"}

\* atoms that are \d{1,2}(?:st|nd|rd|th)?,
DayCommaAtoms == {"15,"}

\* group 0 of \d{4} matched at the start of the atom, "" when it does not match
FourDigitsOf(a) ==
    CASE a \in {"2024"} -> "2024"
      [] a \in {"3000000"} -> "3000"
      [] OTHER -> ""

\* atoms a with "day" in a
HasDayAtoms == {"days"}

\* atoms a with "week" in a
HasWeekAtoms == {"weeks"}

\* atoms a with "month" in a
HasMonthAtoms == {"months", "month", "month end", "monthly"}

\* atoms a with "year" in a
HasYearAtoms == {"years", "year", "year end"}

\* atoms a with a.lower() ending in "month"
EndsMonthAtoms == {"month", "Month"}

\* atoms a with a.lower() starting with "month"
StartsMonthAtoms == {"months", "month", "Month", "month end", "monthly"}

\* atoms a with "month end" in a.lower()
WholeMonthEndAtoms == {"month end"}

\* atoms a with a.lower() ending in "quarter"
EndsQuarterAtoms == {"quarter"}

\* atoms a with a.lower() starting with "quarter"
StartsQuarterAtoms == {"quarters", "quarter", "quarter end", "quarterly"}

\* atoms a with "quarter end" in a.lower()
WholeQuarterEndAtoms == {"quarter end"}

\* atoms a with a.lower() ending in "year"
EndsYearAtoms == {"year"}

\* atoms a with a.lower() starting with "year"
StartsYearAtoms == {"years", "year", "year end"}

\* atoms a with "year end" in a.lower()
WholeYearEndAtoms == {"year end"}

\* atoms a with a.lower() starting with "end"
StartsEndAtoms == {"end of"}

\* atoms that contain (?i)(?:maintain|require|covenant|agreement)
CovenantHeadAtoms == {"maintain", "financial covenant"}

\* atoms that contain (?i)(?:debt service coverage|interest coverage|leverage ratio|current ratio|quick ratio|working capital|debt to equity|total debt)
CovenantTailAtoms == {"leverage ratio"}

\* atoms in which financial_covenant_patterns[0] matches
CovenantWholeAtoms == {}

\* atoms that contain (?i)(?:financial covenant|financial ratio|ratio covenant)
CovenantNameAtoms == {"financial covenant"}

\* atoms that contain (?i)(?:minimum|maximum)
LimitHeadAtoms == {"minimum"}

\* atoms that contain (?i)(?:balance sheet|equity|assets|liabilities|revenue|net worth|cash flow)
LimitTailAtoms == {"equity"}

\* atoms in which financial_covenant_patterns[2] matches
LimitWholeAtoms == {}

\* atoms that contain (?i)(?:provide|submit|deliver|furnish|send)
ProvideHeadAtoms == {"deliver"}

\* atoms that contain (?i)(?:report|statement|financial|quarterly|monthly|annual|yearly|audit)
ProvideTailAtoms == 
    {"monthly", "statements", "report", "financial covenant", "financial statements",
    "quarterly", "annual"}

\* atoms in which reporting_patterns[0] matches
ProvideWholeAtoms == {}

\* atoms that contain (?i)(?:monthly|quarterly|annual)
PeriodicHeadAtoms == {"monthly", "quarterly", "annual"}

\* atoms that contain (?i)(?:report|statement|financial)
PeriodicTailAtoms == 
    {"statements", "report", "financial covenant", "financial statements"}

\* atoms in which reporting_patterns[1] matches
PeriodicWholeAtoms == {}

\* atoms that contain (?i)(?:financial statements?|income statement|balance sheet|cash flow statement|tax returns?)
StatementAtoms == {"financial statements"}

\* atoms that contain (?i)(?:notify|inform|advise|tell|report)
NotifyHeadAtoms == {"notify", "report"}

\* atoms that contain (?i)(?:change|event|default|breach|material|condition)
NotifyTailAtoms == {"default", "change", "material adverse"}

\* atoms in which notification_patterns[0] matches
NotifyWholeAtoms == {}

\* atoms that end in (?i)"promptly"
PromptlyEndAtoms == {"promptly"}

\* atoms that start with (?i)"notify"
NotifyStartAtoms == {"notify"}

\* atoms that end in (?i)"immediately"
ImmediatelyEndAtoms == {}

\* atoms that start with (?i)"inform"
InformStartAtoms == {}

\* atoms that contain (?i)"without delay"
WithoutDelayAtoms == {}

\* atoms that contain (?i)(?:lender|agent|bank)
PartyAtoms == {"Lender"}

\* atoms that contain (?i)(?:notice of|notification of|inform of)
NoticeHeadAtoms == {"notice of"}

\* atoms that contain (?i)(?:default|event|change|condition)
NoticeTailAtoms == {"default", "change"}

\* atoms in which notification_patterns[2] matches
NoticeWholeAtoms == {}

\* atoms in which (?i)\bmonth\b, (?i)\bmonthly\b or (?i)eom\b matches
MonthlyAtoms == {"month", "Month", "month end", "monthly"}

\* atoms in which (?i)\bquarter\b, (?i)\bquarterly\b or (?i)q\d matches
QuarterlyAtoms == {"quarter", "quarter end", "quarterly"}

\* atoms in which (?i)\byear\b, (?i)\bannual\b or (?i)\byearly\b matches
AnnualAtoms == {"year", "year end", "annual"}

\* atoms that contain (?i)upon, (?i)when, (?i)if or (?i)as soon as
EventAtoms == {"notify", "upon"}

\* atoms that contain (?i)(?:within)
SpanHeadAtoms == {"within"}

\* atoms that contain (?i)(?:days|hours|weeks)
SpanTailAtoms == {"days", "Days", "weeks"}

\* atoms in which (?i)within.*?(?:days|hours|weeks) matches
SpanWholeAtoms == {}

\* the patterns of high_risk_keywords that match in the atom
HighRiskKeywordsOf(a) ==
    CASE a \in {"default"} -> {"default"}
      [] a \in {"material adverse"} -> {"material adverse"}
      [] OTHER -> {}

\* the patterns of medium_risk_keywords that match in the atom
MediumRiskKeywordsOf(a) ==
    CASE a \in {"fee"} -> {"fee"}
      [] a \in {"compliance"} -> {"compliance"}
      [] a \in {"waiver"} -> {"waiver"}
      [] OTHER -> {}

\* atoms that are [.!?]+ or \\n+
SentenceEndAtoms == {"."}

\* atoms that are ; (with the space that follows it in a text, ;\s+)
SemicolonAtoms == {";"}

\* LEXICON-END

\* the least member of a non-empty set of positions: re.search finds the
\* leftmost match
Leftmost(positions) == CHOOSE i \in positions : \A j \in positions : i <= j

----------------------------------------------------------------------------
(* extractor/deadline_parser.py *)

\* "end of <word>" in reference.lower()
MentionsEndOf(reference, startsWord) ==
    \E i \in 1..(Len(reference) - 1) :
        reference[i] \in EndOfAtoms /\ reference[i + 1] \in startsWord

\* "<word> end" in reference.lower()
MentionsWordEnd(reference, wholeWordEnd, endsWord) ==
    \E i \in 1..Len(reference) :
        \/ reference[i] \in wholeWordEnd
        \/ /\ i < Len(reference)
           /\ reference[i] \in endsWord
           /\ reference[i + 1] \in StartsEndAtoms

\* today.replace(day=last_day), lines 140-141
MonthEnd(now) ==
    LET ymd == FromOrdinal(now.day)
    IN  [day |-> ToOrdinal(ymd[1], ymd[2], DaysInMonth(ymd[1], ymd[2])), tod |-> now.tod]

\* today.replace(month=quarter_end_month, day=last_day), lines 146-151
QuarterEnd(now) ==
    LET ymd == FromOrdinal(now.day)
        current_quarter == ((ymd[2] - 1) \div 3) + 1
        quarter_end_month == current_quarter * 3
    IN  [day |-> ToOrdinal(ymd[1], quarter_end_month, DaysInMonth(ymd[1], quarter_end_month)),
         tod |-> now.tod]

\* today.replace(month=12, day=31), line 156
YearEnd(now) ==
    LET ymd == FromOrdinal(now.day)
    IN  [day |-> ToOrdinal(ymd[1], 12, 31), tod |-> now.tod]

\* None stands for the None the except clause returns: int(quantity) raised
\* ValueError, or the date arithmetic raised OverflowError
calculate_expected_date(quantity, unit, reference, now) ==
    IF quantity \notin IntAtoms THEN None
    ELSE LET qty == IntOf(quantity)
         IN  IF unit \in HasDayAtoms THEN PlusDays(now, qty)
             ELSE IF unit \in HasWeekAtoms THEN PlusDays(now, 7 * qty)
             ELSE IF unit \in HasMonthAtoms THEN PlusDays(now, qty * 30)
             ELSE IF unit \in HasYearAtoms THEN PlusDays(now, qty * 365)
             ELSE IF \/ MentionsEndOf(reference, StartsMonthAtoms)
                     \/ MentionsWordEnd(reference, WholeMonthEndAtoms, EndsMonthAtoms)
             THEN PlusDays(MonthEnd(now), qty)
             ELSE IF \/ MentionsEndOf(reference, StartsQuarterAtoms)
                     \/ MentionsWordEnd(reference, WholeQuarterEndAtoms, EndsQuarterAtoms)
             THEN PlusDays(QuarterEnd(now), qty)
             ELSE IF \/ MentionsEndOf(reference, StartsYearAtoms)
                     \/ MentionsWordEnd(reference, WholeYearEndAtoms, EndsYearAtoms)
             THEN PlusDays(YearEnd(now), qty)
             ELSE PlusDays(now, qty)

\* where deadline_patterns[0] matches: a lead word, a number, a unit, "after",
\* "of" or "following", and at least one more atom (the \s+ before group 3)
AfterPatternStarts(text) ==
    { i \in 1..(Len(text) - 4) :
        /\ text[i] \in LeadAtoms
        /\ text[i + 1] \in NumberAtoms
        /\ text[i + 2] \in UnitAtoms
        /\ text[i + 3] \in AfterAtoms }

\* where deadline_patterns[1] matches: a number, a unit, "before" or "prior to",
\* and at least one more atom
BeforePatternStarts(text) ==
    { i \in 1..(Len(text) - 3) :
        /\ text[i] \in NumberAtoms
        /\ text[i + 1] \in UnitAtoms
        /\ text[i + 2] \in BeforeAtoms }

\* the mutant of the branch that stores the date without testing it, None as
\* the string "None"
DatedMatchUntested(result, quantity, unit, reference, now) ==
    LET calculated_date == calculate_expected_date(quantity, unit, reference, now)
    IN  [result EXCEPT
            !.rule = <<"within", quantity, unit, "after">> \o reference,
            !.calculated_date =
                IF calculated_date # None THEN Strftime(calculated_date)
                ELSE Literal("None")]

\* lines 41-51: the branch taken for a match with three groups
DatedMatch(result, quantity, unit, reference, now) ==
    LET calculated_date == calculate_expected_date(quantity, unit, reference, now)
    IN  [result EXCEPT
            !.rule = <<"within", quantity, unit, "after">> \o reference,
            !.calculated_date =
                IF calculated_date # None THEN Strftime(calculated_date) ELSE @]

\* lines 38-56.  deadline_patterns[2] has no group, so a match of it takes
\* neither branch and leaves the result as it is.
DeadlineRuleLoop(result, text, now) ==
    LET afterStarts == AfterPatternStarts(text)
        r1 == IF afterStarts = {} THEN result
              ELSE LET i == Leftmost(afterStarts)
                   IN  DatedMatch(result, text[i + 1], text[i + 2],
                                  SubSeq(text, i + 4, Len(text)), now)
        beforeStarts == BeforePatternStarts(text)
    IN  IF beforeStarts = {} THEN r1
        ELSE LET i == Leftmost(beforeStarts)
             IN  DatedMatch(r1, text[i], text[i + 1], SubSeq(text, i + 3, Len(text)), now)

\* lines 58-64
ImmediateOverride(result, text) ==
    IF \E i \in 1..Len(text) : text[i] \in ImmediateAtoms
    THEN [result EXCEPT !.rule = <<"immediate upon occurrence">>,
                        !.calculated_date = Literal("Upon Event")]
    ELSE result

\* where period_end_patterns[0] matches; period_end_patterns[1] is the same
\* pattern after "by", so it matches only where the first already has
PeriodEndStarts(text) ==
    { i \in 1..(Len(text) - 1) : text[i] \in EndOfAtoms /\ PeriodOf(text[i + 1]) # "" }

\* lines 78-83: "month" in period, "quarter" in period, "year" in period, on the
\* period as the text spells it
PeriodSentinel(period, calculated_date) ==
    IF period = "month" THEN Literal("End of Month")
    ELSE IF period = "quarter" THEN Literal("End of Quarter")
    ELSE IF period \in {"year", "fiscal year", "calendar year"} THEN Literal("End of Year")
    ELSE calculated_date

\* lines 66-84
PeriodEndOverride(result, text) ==
    IF PeriodEndStarts(text) = {} THEN result
    ELSE LET period == PeriodOf(text[Leftmost(PeriodEndStarts(text)) + 1])
         IN  [result EXCEPT !.rule = <<"by", "end of", period>>,
                            !.calculated_date = PeriodSentinel(period, @)]

\* lines 87-98: the first of the three general patterns that matches gives the rule
GeneralRule(result, text) ==
    LET frequencyAt == { i \in 1..Len(text) : FrequencyWordOf(text[i]) # "" }
        withinAt == { i \in 1..(Len(text) - 2) :
                        /\ text[i] \in WithinAtoms
                        /\ text[i + 1] \in NumberAtoms
                        /\ DaysPrefixOf(text[i + 2]) # "" }
        byDateAt == { i \in 1..(Len(text) - 3) :
                        /\ text[i] \in ByAtoms
                        /\ text[i + 1] \in WordAtoms
                        /\ text[i + 2] \in DayCommaAtoms
                        /\ FourDigitsOf(text[i + 3]) # "" }
    IN  IF result.rule # <<>> THEN result
        ELSE IF frequencyAt # {}
        THEN [result EXCEPT !.rule = <<FrequencyWordOf(text[Leftmost(frequencyAt)])>>]
        ELSE IF withinAt # {}
        THEN LET i == Leftmost(withinAt)
             IN  [result EXCEPT !.rule = <<text[i], text[i + 1], DaysPrefixOf(text[i + 2])>>]
        ELSE IF byDateAt # {}
        THEN LET i == Leftmost(byDateAt)
             IN  [result EXCEPT
                     !.rule = <<text[i], text[i + 1], text[i + 2], FourDigitsOf(text[i + 3])>>]
        ELSE result

\* lines 100-102
SetDescription(result) ==
    IF result.description = <<>> /\ result.rule # <<>>
    THEN [result EXCEPT !.description = result.rule]
    ELSE result

\* a rule and a description are the sequences of their atoms
parse_deadline(text, now) ==
    LET result == [rule |-> <<>>, calculated_date |-> Literal(""),
                   frequency |-> <<>>, description |-> <<>>]
    IN  SetDescription(
            GeneralRule(
                PeriodEndOverride(
                    ImmediateOverride(DeadlineRuleLoop(result, text, now), text),
                    text),
                text))

\* the literal strings of the model that contain "End of"
EndOfLiterals == {"End of Month", "End of Quarter", "End of Year"}

get_compliance_status(deadline_date, now) ==
    IF \/ deadline_date = Literal("")
       \/ deadline_date = Literal("Upon Event")
       \/ (deadline_date.form = "literal" /\ deadline_date.text \in EndOfLiterals)
    THEN "Compliant"
    ELSE IF ~StrptimeParses(deadline_date) THEN "Compliant"
    ELSE LET diff_days == DiffDays(Strptime(deadline_date), now)
         IN  IF diff_days < 0 THEN "Missed"
             ELSE IF diff_days <= 7 THEN "Due Soon"
             ELSE "Compliant"

----------------------------------------------------------------------------
(* The risk scorer applied to bounded inputs. *)

\* dicts over the three fields the scorer reads, each recognised, unrecognised
\* ("Other") or missing
ScoreFieldValues ==
    [type |-> {"Financial Covenant", "Reporting", "Notification", "Other"},
     risk_level |-> {"High", "Medium", "Low", "Other"},
     compliance_status |-> {"Missed", "Due Soon", "Compliant", "Other"}]

ScoreKeys == {"type", "risk_level", "compliance_status"}

ScoreValues == UNION { ScoreFieldValues[k] : k \in ScoreKeys }

\* every dict with any subset of the three keys
ScoreDicts ==
    UNION { { d \in [ks -> ScoreValues] : \A k \in ks : d[k] \in ScoreFieldValues[k] }
            : ks \in SUBSET ScoreKeys }

\* obligations of a list: the three fields, and either no stored risk fields
\* (never scored) or stored ones that an earlier scoring left behind
ListObligations ==
    { [type |-> t, risk_level |-> l, compliance_status |-> c]
        : t \in {"Financial Covenant", "Reporting", "Other"},
          l \in {"High", "Medium"},
          c \in {"Missed", "Due Soon", "Compliant"} }
    \cup
    { [type |-> t, risk_level |-> l, compliance_status |-> c,
       risk_score |-> s[1], risk_category |-> s[2]]
        : t \in {"Financial Covenant", "Reporting", "Other"},
          l \in {"High", "Medium"},
          c \in {"Missed", "Due Soon", "Compliant"},
          s \in {<<100, "High">>, <<25, "Low">>} }

ObligationLists == UNION { [1..n -> ListObligations] : n \in 0..MaxObs }

\* obligations with the nine fields that _extract_single_obligation gives them
FullObligations ==
    { [id |-> i, type |-> "Reporting", description |-> <<"a">>,
       frequency |-> "Monthly", deadline_rule |-> "End of Month",
       responsible_party |-> "Borrower", risk_level |-> "High",
       compliance_status |-> c, next_deadline |-> Literal("End of Month")]
        : i \in {1, 2}, c \in {"Compliant", "Missed"} }

FullObligationLists == UNION { [1..n -> FullObligations] : n \in 1..MaxObs }

\* obligations of a list whose deadlines are asked for: with each status, with
\* an unrecognised one and with none
StatusObligations ==
    { [type |-> t, compliance_status |-> c]
        : t \in {"Reporting", "Notification"},
          c \in {"Missed", "Due Soon", "Compliant", "Other"} }
    \cup { [type |-> t] : t \in {"Reporting", "Notification"} }

StatusLists == UNION { [1..n -> StatusObligations] : n \in 0..MaxObs }

\* the default of days_ahead, and values around the 7 days of Due Soon
DaysAheadValues == {0, 7, 14}

ScoreInputs == (0 - ScoreSlack)..(100 + ScoreSlack)

InitRisk ==
    /\ today = None
    /\ hashseed = 0
    /\ session = InitialSession
    /\ call = "none"
    /\ ret = <<>>
    /\ \/ \E d \in ScoreDicts : arg = [kind |-> "obligation", obligation |-> d]
       \/ \E s \in ScoreInputs : arg = [kind |-> "score", score |-> s]
       \/ \E obs \in ObligationLists \cup FullObligationLists :
             arg = [kind |-> "obligations", obligations |-> obs]
       \/ \E obs \in StatusLists, days_ahead \in DaysAheadValues :
             arg = [kind |-> "upcoming", obligations |-> obs, days_ahead |-> days_ahead]

CallCalculateRiskScore ==
    /\ call = "none"
    /\ arg.kind = "obligation"
    /\ call' = "calculate_risk_score"
    /\ ret' = calculate_risk_score(arg.obligation)
    /\ UNCHANGED <<today, hashseed, session, arg>>

CallCategorizeRiskLevel ==
    /\ call = "none"
    /\ arg.kind = "score"
    /\ call' = "categorize_risk_level"
    /\ ret' = categorize_risk_level(arg.score)
    /\ UNCHANGED <<today, hashseed, session, arg>>

\* arg keeps the list as it was passed; ret is the list after the in-place update
CallUpdateObligationRisks ==
    /\ call = "none"
    /\ arg.kind = "obligations"
    /\ call' = "update_obligation_risks"
    /\ ret' = update_obligation_risks(arg.obligations)
    /\ UNCHANGED <<today, hashseed, session, arg>>

CallGetHighRiskObligations ==
    /\ call = "none"
    /\ arg.kind = "obligations"
    /\ call' = "get_high_risk_obligations"
    /\ ret' = get_high_risk_obligations(arg.obligations)
    /\ UNCHANGED <<today, hashseed, session, arg>>

CallGetUpcomingDeadlines ==
    /\ call = "none"
    /\ arg.kind = "upcoming"
    /\ call' = "get_upcoming_deadlines"
    /\ ret' = get_upcoming_deadlines(arg.obligations, arg.days_ahead)
    /\ UNCHANGED <<today, hashseed, session, arg>>

NextRisk ==
    \/ CallCalculateRiskScore
    \/ CallCategorizeRiskLevel
    \/ CallUpdateObligationRisks
    \/ CallGetHighRiskObligations
    \/ CallGetUpcomingDeadlines

SpecRisk == InitRisk /\ [][NextRisk]_vars

----------------------------------------------------------------------------
(* extractor/obligation_extractor.py: deduplication.  A description is the  *)
(* sequence of its characters.                                              *)

\* str.lower() on the letters it changes
LowerOf ==
    "A" :> "a" @@ "B" :> "b" @@ "C" :> "c" @@ "D" :> "d" @@ "E" :> "e" @@ "F" :> "f"
    @@ "G" :> "g" @@ "H" :> "h" @@ "I" :> "i" @@ "J" :> "j" @@ "K" :> "k" @@ "L" :> "l"
    @@ "M" :> "m" @@ "N" :> "n" @@ "O" :> "o" @@ "P" :> "p" @@ "Q" :> "q" @@ "R" :> "r"
    @@ "S" :> "s" @@ "T" :> "t" @@ "U" :> "u" @@ "V" :> "v" @@ "W" :> "w" @@ "X" :> "x"
    @@ "Y" :> "y" @@ "Z" :> "z"

UpperLetters == DOMAIN LowerOf
LowerLetters == { LowerOf[c] : c \in UpperLetters }
Digits == {"0", "1", "2", "3", "4", "5", "6", "7", "8", "9"}

\* str.lower() on one character
LowerChar(c) == IF c \in UpperLetters THEN LowerOf[c] ELSE c

\* the characters that the regular expression \w matches
WordChars == LowerLetters \cup UpperLetters \cup Digits \cup {"_"}

IsWordChar(c) == c \in WordChars

\* re.sub(r'\W+', '', description.lower())
NormDesc(description) ==
    LET lowered == [i \in 1..Len(description) |-> LowerChar(description[i])]
    IN  SelectSeq(lowered, IsWordChar)

\* the mutant of the loop that deletes a duplicate from the list it is iterating
\* over, so that the obligation after each deleted one is never examined
RECURSIVE DedupLoopRemoving(_, _, _)
DedupLoopRemoving(rest, seen, unique) ==
    IF rest = <<>> THEN unique
    ELSE LET norm_desc == NormDesc(Head(rest)["description"])
         IN  IF norm_desc \notin seen
             THEN DedupLoopRemoving(Tail(rest), seen \cup {norm_desc}, Append(unique, Head(rest)))
             ELSE IF Tail(rest) = <<>> THEN unique
             ELSE DedupLoopRemoving(Tail(Tail(rest)), seen, Append(unique, Head(Tail(rest))))

\* the mutant of the loop that keeps the last obligation of each normalized
\* description instead of the first
RECURSIVE DedupLoopKeepLast(_, _, _)
DedupLoopKeepLast(rest, seen, unique) ==
    IF rest = <<>> THEN unique
    ELSE LET norm_desc == NormDesc(Head(rest)["description"])
             later == \E i \in 1..Len(Tail(rest)) :
                          NormDesc(Tail(rest)[i]["description"]) = norm_desc
         IN  IF ~later
             THEN DedupLoopKeepLast(Tail(rest), seen, Append(unique, Head(rest)))
             ELSE DedupLoopKeepLast(Tail(rest), seen, unique)

\* the loop of _deduplicate_obligations from the obligations still to visit,
\* with seen_descriptions and unique_obligations as they stand
RECURSIVE DedupLoop(_, _, _)
DedupLoop(rest, seen, unique) ==
    IF rest = <<>> THEN unique
    ELSE LET norm_desc == NormDesc(Head(rest)["description"])
         IN  IF norm_desc \notin seen
             THEN DedupLoop(Tail(rest), seen \cup {norm_desc}, Append(unique, Head(rest)))
             ELSE DedupLoop(Tail(rest), seen, unique)

deduplicate_obligations(obligations) == DedupLoop(obligations, {}, <<>>)

----------------------------------------------------------------------------
(* Deduplication applied to bounded inputs, once and then to its own output. *)

\* descriptions that differ in case, in non-word characters, in an underscore
\* (a word character) and in a letter
SampleDescriptions ==
    { <<>>, <<"-">>, <<"a">>, <<"A">>, <<"a", "-">>, <<"-", "A">>, <<"a", " ", "b">>,
      <<"A", "B">>, <<"b">>, <<"a", "_">> }

DedupObligations == { [description |-> d] : d \in SampleDescriptions }

DedupLists == UNION { [1..n -> DedupObligations] : n \in 0..MaxDedup }

InitDedup ==
    /\ today = None
    /\ hashseed = 0
    /\ session = InitialSession
    /\ call = "none"
    /\ ret = <<>>
    /\ \E obs \in DedupLists : arg = [kind |-> "obligations", obligations |-> obs]

CallDeduplicate ==
    /\ call = "none"
    /\ call' = "_deduplicate_obligations"
    /\ ret' = deduplicate_obligations(arg.obligations)
    /\ UNCHANGED <<today, hashseed, session, arg>>

\* the output of the first call is the input of the second
CallDeduplicateAgain ==
    /\ call = "_deduplicate_obligations"
    /\ call' = "_deduplicate_obligations again"
    /\ arg' = [kind |-> "obligations", obligations |-> ret, original |-> arg.obligations]
    /\ ret' = deduplicate_obligations(ret)
    /\ UNCHANGED <<today, hashseed, session>>

NextDedup == CallDeduplicate \/ CallDeduplicateAgain

SpecDedup == InitDedup /\ [][NextDedup]_vars

----------------------------------------------------------------------------
(* extractor/obligation_extractor.py *)

\* the string that the atoms spell, as the sequence of its characters:
\* " ".join(atoms)
RECURSIVE StringOf(_)
StringOf(atoms) ==
    IF atoms = <<>> THEN <<>>
    ELSE IF Len(atoms) = 1 THEN CharsOf(atoms[1])
    ELSE CharsOf(atoms[1]) \o <<" ">> \o StringOf(Tail(atoms))

\* whether the text is split at its first atom: [.!?]+ anywhere, ; only before
\* whitespace, that is, before another atom
SplitsAtHead(rest) ==
    \/ Head(rest) \in SentenceEndAtoms
    \/ Head(rest) \in SemicolonAtoms /\ Tail(rest) # <<>>

\* re.split(r'[.!?]+|;\s+|\n+', text): the fragments between the separators, the
\* empty ones included
RECURSIVE SplitLoop(_, _, _)
SplitLoop(rest, fragment, fragments) ==
    IF rest = <<>> THEN Append(fragments, fragment)
    ELSE IF SplitsAtHead(rest)
    THEN SplitLoop(Tail(rest), <<>>, Append(fragments, fragment))
    ELSE SplitLoop(Tail(rest), Append(fragment, Head(rest)), fragments)

\* len(s.strip()) > 20; a fragment's atoms are what strip() leaves of it
IsKept(fragment) == Len(StringOf(fragment)) > 20

split_into_sentences(text) == SelectSeq(SplitLoop(text, <<>>, <<>>), IsKept)

\* re.search of a pattern (?:heads).*?(?:tails) in the sentence: inside one atom,
\* or a head in one atom and a tail in a later one
MatchesThen(sentence, heads, tails, wholes) ==
    \E i \in 1..Len(sentence) :
        \/ sentence[i] \in wholes
        \/ /\ sentence[i] \in heads
           /\ \E j \in (i + 1)..Len(sentence) : sentence[j] \in tails

\* re.search of a pattern that matches inside one atom
MatchesIn(sentence, atoms) == \E i \in 1..Len(sentence) : sentence[i] \in atoms

\* notification_patterns[1]: "promptly notify", "immediately inform" or
\* "without delay", and a party after it
MatchesPrompt(sentence) ==
    \E i \in 1..Len(sentence) :
        \/ /\ i < Len(sentence)
           /\ \/ sentence[i] \in PromptlyEndAtoms /\ sentence[i + 1] \in NotifyStartAtoms
              \/ sentence[i] \in ImmediatelyEndAtoms /\ sentence[i + 1] \in InformStartAtoms
           /\ \E j \in (i + 2)..Len(sentence) : sentence[j] \in PartyAtoms
        \/ /\ sentence[i] \in WithoutDelayAtoms
           /\ \E j \in (i + 1)..Len(sentence) : sentence[j] \in PartyAtoms

\* the None that _classify_obligation_type returns for a sentence of no type
NoType == "None"

\* the mutant of _classify_obligation_type that looks for a reporting obligation
\* first
classify_obligation_type_reporting_first(sentence) ==
    IF \/ MatchesThen(sentence, ProvideHeadAtoms, ProvideTailAtoms, ProvideWholeAtoms)
       \/ MatchesThen(sentence, PeriodicHeadAtoms, PeriodicTailAtoms, PeriodicWholeAtoms)
       \/ MatchesIn(sentence, StatementAtoms)
    THEN "Reporting"
    ELSE IF \/ MatchesThen(sentence, CovenantHeadAtoms, CovenantTailAtoms, CovenantWholeAtoms)
            \/ MatchesIn(sentence, CovenantNameAtoms)
            \/ MatchesThen(sentence, LimitHeadAtoms, LimitTailAtoms, LimitWholeAtoms)
    THEN "Financial Covenant"
    ELSE IF \/ MatchesThen(sentence, NotifyHeadAtoms, NotifyTailAtoms, NotifyWholeAtoms)
            \/ MatchesPrompt(sentence)
            \/ MatchesThen(sentence, NoticeHeadAtoms, NoticeTailAtoms, NoticeWholeAtoms)
    THEN "Notification"
    ELSE NoType

classify_obligation_type(sentence) ==
    IF \/ MatchesThen(sentence, CovenantHeadAtoms, CovenantTailAtoms, CovenantWholeAtoms)
       \/ MatchesIn(sentence, CovenantNameAtoms)
       \/ MatchesThen(sentence, LimitHeadAtoms, LimitTailAtoms, LimitWholeAtoms)
    THEN "Financial Covenant"
    ELSE IF \/ MatchesThen(sentence, ProvideHeadAtoms, ProvideTailAtoms, ProvideWholeAtoms)
            \/ MatchesThen(sentence, PeriodicHeadAtoms, PeriodicTailAtoms, PeriodicWholeAtoms)
            \/ MatchesIn(sentence, StatementAtoms)
    THEN "Reporting"
    ELSE IF \/ MatchesThen(sentence, NotifyHeadAtoms, NotifyTailAtoms, NotifyWholeAtoms)
            \/ MatchesPrompt(sentence)
            \/ MatchesThen(sentence, NoticeHeadAtoms, NoticeTailAtoms, NoticeWholeAtoms)
    THEN "Notification"
    ELSE NoType

\* frequency_indicators is visited in the order of its keys
determine_frequency(sentence) ==
    IF MatchesIn(sentence, MonthlyAtoms) \/ MentionsEndOf(sentence, StartsMonthAtoms)
    THEN "Monthly"
    ELSE IF MatchesIn(sentence, QuarterlyAtoms) \/ MentionsEndOf(sentence, StartsQuarterAtoms)
    THEN "Quarterly"
    ELSE IF MatchesIn(sentence, AnnualAtoms) \/ MentionsEndOf(sentence, StartsYearAtoms)
    THEN "Annual"
    ELSE IF \/ MatchesIn(sentence, EventAtoms)
            \/ MatchesThen(sentence, SpanHeadAtoms, SpanTailAtoms, SpanWholeAtoms)
    THEN "Event-based"
    ELSE "Event-based"

\* the mutant of _calculate_risk_level that looks at the medium-risk count first
calculate_risk_level_medium_first(sentence) ==
    LET high_risk_count ==
            Cardinality(UNION { HighRiskKeywordsOf(sentence[i]) : i \in 1..Len(sentence) })
        medium_risk_count ==
            Cardinality(UNION { MediumRiskKeywordsOf(sentence[i]) : i \in 1..Len(sentence) })
    IN  IF medium_risk_count > 0 THEN "Medium"
        ELSE IF high_risk_count > 0 THEN "High"
        ELSE "Low"

calculate_risk_level(sentence) ==
    LET high_risk_count ==
            Cardinality(UNION { HighRiskKeywordsOf(sentence[i]) : i \in 1..Len(sentence) })
        medium_risk_count ==
            Cardinality(UNION { MediumRiskKeywordsOf(sentence[i]) : i \in 1..Len(sentence) })
    IN  IF high_risk_count > 0 THEN "High"
        ELSE IF medium_risk_count > 0 THEN "Medium"
        ELSE "Low"

\* hash(sentence).  CPython hashes a str with a keyed hash whose key is drawn
\* when the interpreter starts, so the value is a function of the key and the
\* string that collides for some strings.  A keyed polynomial hash over the
\* lengths of the atoms stands for it.
RECURSIVE HashLoop(_, _)
HashLoop(h, atoms) ==
    IF atoms = <<>> THEN h
    ELSE HashLoop((31 * h + Len(CharsOf(Head(atoms)))) % 16777216, Tail(atoms))

Hash(seed, sentence) == HashLoop(seed, sentence)

\* the mutant of _extract_single_obligation whose new entries start as Due Soon
extract_single_obligation_due_soon(sentence, now, seed) ==
    LET deadline_info == parse_deadline(sentence, now)
    IN  [id |-> Hash(seed, sentence) % 1000000,
         type |-> classify_obligation_type(sentence),
         description |-> StringOf(sentence),
         frequency |-> determine_frequency(sentence),
         deadline_rule |-> deadline_info.rule,
         responsible_party |-> "Borrower",
         risk_level |-> calculate_risk_level(sentence),
         compliance_status |-> "Due Soon",
         next_deadline |-> deadline_info.calculated_date]

\* lines 105-138, for a sentence that has a type; _extract_description returns
\* the sentence it is given
extract_single_obligation(sentence, now, seed) ==
    LET deadline_info == parse_deadline(sentence, now)
    IN  [id |-> Hash(seed, sentence) % 1000000,
         type |-> classify_obligation_type(sentence),
         description |-> StringOf(sentence),
         frequency |-> determine_frequency(sentence),
         deadline_rule |-> deadline_info.rule,
         responsible_party |-> "Borrower",
         risk_level |-> calculate_risk_level(sentence),
         compliance_status |-> "Compliant",
         next_deadline |-> deadline_info.calculated_date]

HasType(sentence) == classify_obligation_type(sentence) # NoType

extract_obligations(text, now, seed) ==
    LET typed == SelectSeq(split_into_sentences(text), HasType)
    IN  deduplicate_obligations(
            [i \in 1..Len(typed) |-> extract_single_obligation(typed[i], now, seed)])

----------------------------------------------------------------------------
(* The deadline parser applied to bounded inputs. *)

\* the phrases sentences are put together from
Phrases ==
    { <<"promptly">>,
      <<"within", "30", "days", "after">>,
      <<"within", "2", "months", "of">>,
      <<"5", "Days", "before">>,
      <<"end of", "month">>,
      <<"end of", "quarter">>,
      <<"by", "end of", "year">>,
      <<"end of", "Month">>,
      <<"end of", "each", "month">>,
      <<"month end">>,
      <<"monthly">>,
      <<"closing">>,
      <<"by", "March", "15,", "2024">> }

\* the sentences made of n phrases
RECURSIVE SentencesOf(_)
SentencesOf(n) ==
    IF n = 0 THEN { <<>> }
    ELSE { s \o p : s \in SentencesOf(n - 1), p \in Phrases }

Sentences == UNION { SentencesOf(n) : n \in 0..MaxPhrases }

\* dates in a leap February, at a month end that is no quarter end, and at a year end
SampleDays ==
    { ToOrdinal(2024, 2, 10), ToOrdinal(2024, 11, 30), ToOrdinal(2025, 12, 31) }

DateArguments ==
    [quantity : {"30", "2", "abc"},
     unit : {"days", "Days", "weeks", "months", "years", "quarters"},
     reference : { <<"the", "end of", "month">>, <<"month end">>, <<"quarter end">>,
                   <<"the", "year end">>, <<"closing">> }]

\* sentences with and without a type whose dates are past the last day of
\* datetime, alone, after a date that is not, and before an immediacy word
ObligationSentences ==
    { lead \o date :
        lead \in { <<"The", "Borrower", "shall", "deliver", "financial statements">>,
                   <<"abc">> },
        date \in { <<"within", "3000000", "days", "after", "closing">>,
                   <<"within", "30", "days", "after", "closing">>,
                   <<"3000000", "years", "before", "closing">>,
                   <<"within", "30", "days", "after", "closing",
                     "3000000", "days", "before", "closing">>,
                   <<"within", "3000000", "days", "after", "closing", "promptly">>,
                   <<"closing">> } }

\* deadlines from two days ago to MaxAhead days ahead of the day
DatedDeadlines(day) ==
    { Strftime([day |-> day + d, tod |-> 0]) : d \in (0 - 2)..MaxAhead }

\* strings that strptime rejects: no date at all, another format, a month, a
\* day and a year that do not exist
MalformedDeadlines ==
    { Literal("not a date"), Literal("15/03/2024"), DateString(2024, 13, 1),
      DateString(2023, 2, 29), DateString(0, 1, 1) }

SentinelDeadlines ==
    { Literal(""), Literal("Upon Event"), Literal("End of Month"),
      Literal("End of Quarter"), Literal("End of Year") }

\* the texts and date arguments are evaluated during the day; a deadline string
\* also at midnight
InitDeadline ==
    /\ \E d \in SampleDays, t \in {0, 1} : today = [day |-> d, tod |-> t]
    /\ hashseed = 0
    /\ session = InitialSession
    /\ call = "none"
    /\ ret = <<>>
    /\ \/ /\ today.tod = 1
          /\ \/ \E s \in Sentences : arg = [kind |-> "text", text |-> s]
             \/ \E s \in ObligationSentences : arg = [kind |-> "sentence", text |-> s]
             \/ \E a \in DateArguments :
                   arg = [kind |-> "date", quantity |-> a.quantity, unit |-> a.unit,
                          reference |-> a.reference]
       \/ \E s \in DatedDeadlines(today.day) \cup MalformedDeadlines \cup SentinelDeadlines :
             arg = [kind |-> "deadline", deadline_date |-> s]

CallParseDeadline ==
    /\ call = "none"
    /\ arg.kind \in {"text", "sentence"}
    /\ call' = "parse_deadline"
    /\ ret' = parse_deadline(arg.text, today)
    /\ UNCHANGED <<today, hashseed, session, arg>>

CallCalculateExpectedDate ==
    /\ call = "none"
    /\ arg.kind = "date"
    /\ call' = "calculate_expected_date"
    /\ ret' = calculate_expected_date(arg.quantity, arg.unit, arg.reference, today)
    /\ UNCHANGED <<today, hashseed, session, arg>>

\* _extract_single_obligation returns None for a sentence of no type
CallExtractSingleObligation ==
    /\ call = "none"
    /\ arg.kind = "sentence"
    /\ call' = "_extract_single_obligation"
    /\ ret' = IF HasType(arg.text)
              THEN extract_single_obligation(arg.text, today, hashseed)
              ELSE None
    /\ UNCHANGED <<today, hashseed, session, arg>>

CallGetComplianceStatus ==
    /\ call = "none"
    /\ arg.kind = "deadline"
    /\ call' = "get_compliance_status"
    /\ ret' = get_compliance_status(arg.deadline_date, today)
    /\ UNCHANGED <<today, hashseed, session, arg>>

NextDeadline ==
    \/ CallParseDeadline
    \/ CallCalculateExpectedDate
    \/ CallExtractSingleObligation
    \/ CallGetComplianceStatus

SpecDeadline == InitDeadline /\ [][NextDeadline]_vars

----------------------------------------------------------------------------
(* app.py: the script that every interaction with the page reruns. *)

\* the mutant of the loop body that also stores the category of the new status
\* and leaves the score as it was
RecomputeStatusAndCategory(obligation, now) ==
    LET next_deadline == obligation["next_deadline"]
    IN  IF /\ next_deadline # Literal("")
           /\ next_deadline # Literal("Upon Event")
           /\ ~(next_deadline.form = "literal" /\ next_deadline.text \in EndOfLiterals)
        THEN LET updated == SetKey(obligation, "compliance_status",
                                   get_compliance_status(next_deadline, now))
             IN  SetKey(updated, "risk_category",
                        categorize_risk_level(calculate_risk_score(updated)))
        ELSE obligation

\* lines 145-150: one iteration of the loop; get_compliance_status does not
\* raise, so the except clause is never entered
RecomputeStatus(obligation, now) ==
    LET next_deadline == obligation["next_deadline"]
    IN  IF /\ next_deadline # Literal("")
           /\ next_deadline # Literal("Upon Event")
           /\ ~(next_deadline.form = "literal" /\ next_deadline.text \in EndOfLiterals)
        THEN SetKey(obligation, "compliance_status",
                    get_compliance_status(next_deadline, now))
        ELSE obligation

\* lines 145-150: the loop
RecomputeStatuses(obligations, now) ==
    [i \in 1..Len(obligations) |-> RecomputeStatus(obligations[i], now)]

\* the number of obligations of the list with the value in the field
CountWith(obligations, key, value) ==
    Cardinality({ i \in 1..Len(obligations) : obligations[i][key] = value })

\* lines 220-229: a row of the table
TableRow(ob) ==
    [ID |-> ob["id"],
     Type |-> ob["type"],
     Description |-> IF Len(ob["description"]) > 100
                     THEN SubSeq(ob["description"], 1, 100) \o <<".", ".", ".">>
                     ELSE ob["description"],
     Frequency |-> ob["frequency"],
     DeadlineRule |-> ob["deadline_rule"],
     NextDeadline |-> ob["next_deadline"],
     RiskLevel |-> ob["risk_category"],
     Status |-> ob["compliance_status"]]

\* lines 167-299: what the page shows for the obligations of the session
Dashboard(obligations) ==
    IF obligations = <<>> THEN [view |-> "welcome"]
    ELSE [view |-> "dashboard",
          total_obligations |-> Len(obligations),
          compliant_count |-> CountWith(obligations, "compliance_status", "Compliant"),
          due_soon_count |-> CountWith(obligations, "compliance_status", "Due Soon"),
          missed_count |-> CountWith(obligations, "compliance_status", "Missed"),
          high_risk_count |-> Len(get_high_risk_obligations(obligations)),
          risk_counts |-> [High |-> CountWith(obligations, "risk_category", "High"),
                           Medium |-> CountWith(obligations, "risk_category", "Medium"),
                           Low |-> CountWith(obligations, "risk_category", "Low")],
          table |-> [i \in 1..Len(obligations) |-> TableRow(obligations[i])],
          high_risk_obligations |-> get_high_risk_obligations(obligations),
          upcoming |-> get_upcoming_deadlines(obligations, 14)]

----------------------------------------------------------------------------
(* The dashboard: texts are extracted, time passes, the page is shown again. *)

\* sentences of the three types, dated, with a sentinel deadline and with none;
\* one that has no type and one that is too short
PipelineSentences ==
    { <<"The", "Borrower", "shall", "maintain", "minimum", "equity", "fee",
        "within", "0", "days", "after", "closing">>,
      <<"The", "Borrower", "shall", "deliver", "financial statements",
        "within", "9", "days", "after", "closing">>,
      <<"The", "Borrower", "shall", "promptly", "notify", "the", "Lender", "of", "default">>,
      <<"The", "Borrower", "shall", "deliver", "statements", "by", "end of", "month">>,
      <<"The", "Borrower", "shall", "maintain", "leverage ratio", "compliance">>,
      <<"abc", "the", "closing", "of", "the", "year", "2024">>,
      <<"notify", "the", "Lender">> }

\* each sentence of the text ends in a full stop
RECURSIVE TextOf(_)
TextOf(sentences) ==
    IF sentences = <<>> THEN <<>>
    ELSE Head(sentences) \o <<".">> \o TextOf(Tail(sentences))

PipelineTexts ==
    { TextOf(s) : s \in UNION { [1..n -> PipelineSentences] : n \in 1..MaxSentences } }

\* the day the session starts on
FirstDay == ToOrdinal(2024, 2, 10)

HashSeeds == {0, 1}

Init ==
    /\ \E t \in {0, 1} : today = [day |-> FirstDay, tod |-> t]
    /\ hashseed \in HashSeeds
    /\ session = InitialSession
    /\ call = "none"
    /\ arg = [kind |-> "none"]
    /\ ret = Dashboard(InitialSession.obligations)

\* a run of the script with the "Extract Obligations" button pressed: the
\* handler (lines 134-162), whose three steps each work on the list the step
\* before it returned, then the page (lines 167-299)
ExtractObligations ==
    \E text \in PipelineTexts :
        /\ text # <<>>
        /\ \E extracted \in {extract_obligations(text, today, hashseed)} :
           \E scored \in {update_obligation_risks(extracted)} :
           \E obligations \in {RecomputeStatuses(scored, today)} :
              /\ session' = [obligations |-> obligations, processed_text |-> text]
              /\ ret' = Dashboard(obligations)
        /\ call' = "Extract Obligations"
        /\ UNCHANGED <<today, hashseed, arg>>

\* a run of the script without the button pressed: the page is shown again
Rerun ==
    /\ call' = "rerun"
    /\ ret' = Dashboard(session.obligations)
    /\ UNCHANGED <<today, hashseed, session, arg>>

\* time passes: from midnight into the day, from the day to the next midnight;
\* the page stays as it was shown
Tick ==
    /\ today.day < FirstDay + MaxDays \/ today.tod = 0
    /\ today' = IF today.tod = 0 THEN [today EXCEPT !.tod = 1]
                ELSE [day |-> today.day + 1, tod |-> 0]
    /\ call' = "tick"
    /\ UNCHANGED <<hashseed, session, arg, ret>>

Next == ExtractObligations \/ Rerun \/ Tick

Spec == Init /\ [][Next]_vars

----------------------------------------------------------------------------
(* The extractor applied to bounded inputs. *)

\* atoms that the patterns of the three types, of both risk lists and of no
\* list match in
ExtractAtoms ==
    { "maintain", "leverage ratio", "deliver", "report", "notify", "change",
      "default", "fee", "quarterly", "financial covenant", "abc" }

ExtractSentences == UNION { [1..n -> ExtractAtoms] : n \in 1..MaxAtoms }

\* fragments of 18, 19, 20 and 21 characters that have a type, one of 20
\* characters that has none, and a long one
ExtractFragments ==
    { <<"notify", "default", "abc">>,
      <<"notify", "default", "2024">>,
      <<"notify", "Lender", "change">>,
      <<"notify", "Lender", "default">>,
      <<"abc", "the", "closing", "2024">>,
      <<"The", "Borrower", "shall", "deliver", "financial statements", "monthly">> }

\* the fragments of a text, each followed by a full stop or by a semicolon; the
\* last may end the text without one
RECURSIVE JoinFragments(_, _)
JoinFragments(fragments, separators) ==
    IF fragments = <<>> THEN <<>>
    ELSE Head(fragments)
         \o (IF Head(separators) = "" THEN <<>> ELSE <<Head(separators)>>)
         \o JoinFragments(Tail(fragments), Tail(separators))

ExtractTexts ==
    UNION { { [fragments |-> f, text |-> JoinFragments(f, s)] :
                f \in [1..n -> ExtractFragments],
                s \in { q \in [1..n -> {".", ";", ""}] :
                          /\ \A i \in 1..(n - 1) : q[i] # ""
                          /\ q[n] # ";" } } :
            n \in 1..MaxFragments }

InitExtract ==
    /\ today = [day |-> FirstDay, tod |-> 1]
    /\ hashseed = 0
    /\ session = InitialSession
    /\ call = "none"
    /\ ret = <<>>
    /\ \/ \E s \in ExtractSentences : arg = [kind |-> "sentence", sentence |-> s]
       \/ \E t \in ExtractTexts :
             arg = [kind |-> "text", text |-> t.text, fragments |-> t.fragments]

CallClassifyObligationType ==
    /\ call = "none"
    /\ arg.kind = "sentence"
    /\ call' = "_classify_obligation_type"
    /\ ret' = classify_obligation_type(arg.sentence)
    /\ UNCHANGED <<today, hashseed, session, arg>>

CallDetermineFrequency ==
    /\ call = "none"
    /\ arg.kind = "sentence"
    /\ call' = "_determine_frequency"
    /\ ret' = determine_frequency(arg.sentence)
    /\ UNCHANGED <<today, hashseed, session, arg>>

CallCalculateRiskLevel ==
    /\ call = "none"
    /\ arg.kind = "sentence"
    /\ call' = "_calculate_risk_level"
    /\ ret' = calculate_risk_level(arg.sentence)
    /\ UNCHANGED <<today, hashseed, session, arg>>

CallSplitIntoSentences ==
    /\ call = "none"
    /\ arg.kind = "text"
    /\ call' = "_split_into_sentences"
    /\ ret' = split_into_sentences(arg.text)
    /\ UNCHANGED <<today, hashseed, session, arg>>

CallExtractObligations ==
    /\ call = "none"
    /\ arg.kind = "text"
    /\ call' = "extract_obligations"
    /\ ret' = extract_obligations(arg.text, today, hashseed)
    /\ UNCHANGED <<today, hashseed, session, arg>>

NextExtract ==
    \/ CallClassifyObligationType
    \/ CallDetermineFrequency
    \/ CallCalculateRiskLevel
    \/ CallSplitIntoSentences
    \/ CallExtractObligations

SpecExtract == InitExtract /\ [][NextExtract]_vars

----------------------------------------------------------------------------
(* Claims about the risk scorer, checked under SpecRisk. *)

\* C1: for every obligation record, recognised, unrecognised or missing fields
\* alike, calculate_risk_score returns an integer in 0..100, and so does every
\* risk_score that update_obligation_risks stores.
C1_ScoreInRange ==
    /\ call = "calculate_risk_score" => ret \in 0..100
    /\ call = "update_obligation_risks" =>
          /\ Len(ret) = Len(arg.obligations)
          /\ \A i \in 1..Len(ret) : ret[i]["risk_score"] \in 0..100

\* a list was scored and one of its obligations needed the upper clamp
C1_Witness ==
    /\ call = "update_obligation_risks"
    /\ \E i \in 1..Len(ret) :
          /\ BaseScore100(arg.obligations[i]) > 100 * 100
          /\ ret[i]["risk_score"] = 100

\* the weights as the specification states them, in tenths
StatedTypeWeight10(ob) ==
    IF "type" \notin DOMAIN ob THEN 5
    ELSE IF ob["type"] = "Financial Covenant" THEN 10
    ELSE IF ob["type"] = "Reporting" THEN 6
    ELSE IF ob["type"] = "Notification" THEN 4
    ELSE 5

StatedLevelWeight10(ob) ==
    IF "risk_level" \notin DOMAIN ob THEN 10
    ELSE IF ob["risk_level"] = "High" THEN 15
    ELSE IF ob["risk_level"] = "Medium" THEN 10
    ELSE IF ob["risk_level"] = "Low" THEN 5
    ELSE 10

StatedUrgency(ob) ==
    IF "compliance_status" \notin DOMAIN ob THEN 5
    ELSE IF ob["compliance_status"] = "Missed" THEN 30
    ELSE IF ob["compliance_status"] = "Due Soon" THEN 15
    ELSE IF ob["compliance_status"] = "Compliant" THEN 0
    ELSE 5

\* typeWeight * 50 * levelWeight + urgency, in hundredths
StatedValue100(ob) ==
    StatedTypeWeight10(ob) * 50 * StatedLevelWeight10(ob) + 100 * StatedUrgency(ob)

\* C2: calculate_risk_score is min(100, max(0, trunc(typeWeight * 50 * levelWeight
\* + urgency))): the score is 100 when the value is 100 or more, and otherwise the
\* one integer s with s <= value < s + 1 (truncation, not rounding); Financial
\* Covenant + High + Missed scores 100 and unknown type + Low + Compliant (12.5)
\* scores 12.
C2_ScoreFormula ==
    call = "calculate_risk_score" =>
        LET ob == arg.obligation
            v  == StatedValue100(ob)
        IN  /\ v >= 100 * 100 => ret = 100
            /\ v < 100 * 100 => (100 * ret <= v /\ v < 100 * (ret + 1))
            /\ ob = [type |-> "Financial Covenant", risk_level |-> "High",
                     compliance_status |-> "Missed"] => ret = 100
            /\ ob = [type |-> "Other", risk_level |-> "Low",
                     compliance_status |-> "Compliant"] => ret = 12

\* the fractional case: unknown type, Low level, 12.5 scored as 12
C2_Witness ==
    /\ call = "calculate_risk_score"
    /\ arg.obligation = [type |-> "Other", risk_level |-> "Low",
                         compliance_status |-> "Compliant"]
    /\ StatedValue100(arg.obligation) = 1250
    /\ ret = 12

\* C3: categorize_risk_level is Low below 30, Medium from 30 to 69 and High from
\* 70 up; 29 -> Low, 30 -> Medium, 69 -> Medium, 70 -> High.
C3_Banding ==
    call = "categorize_risk_level" =>
        /\ arg.score < 30 => ret = "Low"
        /\ (30 <= arg.score /\ arg.score <= 69) => ret = "Medium"
        /\ arg.score >= 70 => ret = "High"
        /\ arg.score = 29 => ret = "Low"
        /\ arg.score = 30 => ret = "Medium"
        /\ arg.score = 69 => ret = "Medium"
        /\ arg.score = 70 => ret = "High"

\* the boundary 70 was categorised
C3_Witness ==
    /\ call = "categorize_risk_level"
    /\ arg.score = 70
    /\ ret = "High"

\* the positions of a list whose obligation is High when rescored now
HighPositions(obs) ==
    { i \in 1..Len(obs) : categorize_risk_level(calculate_risk_score(obs[i])) = "High" }

\* the k-th smallest member of a set of positions
KthOf(positions, k) ==
    CHOOSE i \in positions : Cardinality({ j \in positions : j < i }) = k - 1

\* C5: get_high_risk_obligations returns exactly the obligations whose category
\* recomputed at call time is High, in their original order, whatever
\* risk_category they store.
C5_HighRiskExact ==
    call = "get_high_risk_obligations" =>
        LET obs == arg.obligations
            hp  == HighPositions(obs)
        IN  /\ Len(ret) = Cardinality(hp)
            /\ \A k \in 1..Len(ret) : ret[k] = obs[KthOf(hp, k)]

\* a list where the stored category disagrees both ways: a stored Low that is
\* returned and a stored High that is left out
C5_Witness ==
    /\ call = "get_high_risk_obligations"
    /\ Len(ret) = 1
    /\ Get(ret[1], "risk_category", "") = "Low"
    /\ \E i \in 1..Len(arg.obligations) :
          /\ Get(arg.obligations[i], "risk_category", "") = "High"
          /\ i \notin HighPositions(arg.obligations)

HasStatusDueSoon(obligation) ==
    /\ "compliance_status" \in DOMAIN obligation
    /\ obligation["compliance_status"] = "Due Soon"

RiskFields == {"risk_score", "risk_category"}

\* C17: update_obligation_risks returns the list it was given, with the same
\* obligations in the same order, sets only risk_score and risk_category of each
\* obligation and leaves every other field of it as it was.
C17_UpdateTouchesOnlyRiskFields ==
    call = "update_obligation_risks" =>
        /\ Len(ret) = Len(arg.obligations)
        /\ \A i \in 1..Len(ret) :
              /\ DOMAIN ret[i] = DOMAIN arg.obligations[i] \cup RiskFields
              /\ \A key \in DOMAIN arg.obligations[i] \ RiskFields :
                    ret[i][key] = arg.obligations[i][key]

\* a list of two obligations with all nine fields was updated
C17_Witness ==
    /\ call = "update_obligation_risks"
    /\ Len(arg.obligations) = 2
    /\ arg.obligations[1] \in FullObligations
    /\ arg.obligations[1]["id"] # arg.obligations[2]["id"]
    /\ ret[1]["risk_score"] = 75
    /\ ret[1]["id"] = arg.obligations[1]["id"]

----------------------------------------------------------------------------
(* Claims about deduplication, checked under SpecDedup. *)

\* C6: deduplication is idempotent: applied to its own output it returns that
\* output, the same obligations in the same order.
C6_DedupIdempotent ==
    call = "_deduplicate_obligations again" => ret = arg.obligations

\* the first call removed something, and the second call ran on what was left
C6_Witness ==
    /\ call = "_deduplicate_obligations again"
    /\ Len(arg.original) = 3
    /\ Len(arg.obligations) = 2
    /\ Len(ret) = 2
    /\ NormDesc(ret[1]["description"]) = <<"a">>

\* the positions of a list that hold the first obligation, in list order, of
\* their normalized description
FirstPositions(obs) ==
    { i \in 1..Len(obs) :
        \A j \in 1..(i - 1) :
            NormDesc(obs[j]["description"]) # NormDesc(obs[i]["description"]) }

\* C7: _deduplicate_obligations returns a subsequence of its input in which no
\* two obligations have the same normalized description (lower-cased, non-word
\* characters removed), and the obligation kept for each normalized description
\* is the first in input order that has it.
C7_DedupKeepsFirst ==
    call = "_deduplicate_obligations" =>
        LET obs == arg.obligations
            fp  == FirstPositions(obs)
        IN  /\ Len(ret) = Cardinality(fp)
            /\ \A k \in 1..Len(ret) : ret[k] = obs[KthOf(fp, k)]
            /\ \A k, l \in 1..Len(ret) :
                  k # l => NormDesc(ret[k]["description"]) # NormDesc(ret[l]["description"])
            /\ \A i \in 1..Len(obs) :
                  /\ obs[i]["description"] = <<"-", "A">> =>
                        NormDesc(obs[i]["description"]) = <<"a">>
                  /\ obs[i]["description"] = <<"a", " ", "b">> =>
                        NormDesc(obs[i]["description"]) = <<"a", "b">>
                  /\ obs[i]["description"] = <<"a", "_">> =>
                        NormDesc(obs[i]["description"]) = <<"a", "_">>

\* "-A", "a", "b": the second is dropped for the first, which differs from it
\* in case and punctuation only
C7_Witness ==
    /\ call = "_deduplicate_obligations"
    /\ Len(arg.obligations) = 3
    /\ arg.obligations[1]["description"] = <<"-", "A">>
    /\ arg.obligations[2]["description"] = <<"a">>
    /\ ret = <<arg.obligations[1], arg.obligations[3]>>

----------------------------------------------------------------------------
(* Claims about the deadline parser, checked under SpecDeadline. *)

\* the sentence has a numeric deadline phrase: within N days after/of/following ...
HasNumericPhrase(text) ==
    \E i \in AfterPatternStarts(text) : text[i] \in WithinAtoms /\ text[i + 2] \in {"days"}

\* the sentence has an immediacy word
HasImmediacyWord(text) == \E i \in 1..Len(text) : text[i] \in ImmediateAtoms

\* the sentence has an end-of-period phrase, spelt as the claim spells it: end
\* of month / quarter / year
HasEndOfPeriod(text) ==
    \E i \in 1..(Len(text) - 1) :
        text[i] = "end of" /\ text[i + 1] \in {"month", "quarter", "year"}

\* C8: for every sentence that has both a numeric deadline phrase and an
\* immediacy word, parse_deadline returns the rule "immediate upon occurrence"
\* and the calculated_date "Upon Event".
C8_ImmediacyOverridesNumeric ==
    (call = "parse_deadline" /\ HasNumericPhrase(arg.text) /\ HasImmediacyWord(arg.text)) =>
        /\ ret.rule = <<"immediate upon occurrence">>
        /\ ret.calculated_date = Literal("Upon Event")

\* C9: the end-of-period check does not override the immediacy override: a
\* sentence with an immediacy word and an end-of-period phrase resolves to
\* "immediate upon occurrence" / "Upon Event", and a sentence with an
\* end-of-period phrase and no immediacy word resolves to the sentinel End of
\* Month / End of Quarter / End of Year (also over a numeric match).
C9_PeriodEndKeepsImmediacy ==
    (call = "parse_deadline" /\ HasEndOfPeriod(arg.text)) =>
        IF HasImmediacyWord(arg.text)
        THEN /\ ret.rule = <<"immediate upon occurrence">>
             /\ ret.calculated_date = Literal("Upon Event")
        ELSE /\ ret.calculated_date.form = "literal"
             /\ ret.calculated_date.text \in EndOfLiterals

\* the reference text mentions the end of the month, of the quarter, of the year
MentionsMonth(reference) ==
    \/ MentionsEndOf(reference, StartsMonthAtoms)
    \/ MentionsWordEnd(reference, WholeMonthEndAtoms, EndsMonthAtoms)

MentionsQuarter(reference) ==
    \/ MentionsEndOf(reference, StartsQuarterAtoms)
    \/ MentionsWordEnd(reference, WholeQuarterEndAtoms, EndsQuarterAtoms)

MentionsYear(reference) ==
    \/ MentionsEndOf(reference, StartsYearAtoms)
    \/ MentionsWordEnd(reference, WholeYearEndAtoms, EndsYearAtoms)

\* C10: when the reference mentions the end of the month (quarter, year),
\* calculate_expected_date returns the last day of the current month (quarter,
\* year) plus quantity days, not today plus the quantity; so "within 30 days
\* after month end" gets the month end plus 30 days as its calculated_date.
C10_ReferenceAnchorsDate ==
    /\ (call = "calculate_expected_date" /\ arg.quantity \in IntAtoms) =>
          /\ MentionsMonth(arg.reference) =>
                ret = PlusDays(MonthEnd(today), IntOf(arg.quantity))
          /\ (~MentionsMonth(arg.reference) /\ MentionsQuarter(arg.reference)) =>
                ret = PlusDays(QuarterEnd(today), IntOf(arg.quantity))
          /\ (~MentionsMonth(arg.reference) /\ ~MentionsQuarter(arg.reference)
                /\ MentionsYear(arg.reference)) =>
                ret = PlusDays(YearEnd(today), IntOf(arg.quantity))
    /\ (call = "parse_deadline"
          /\ arg.text = <<"within", "30", "days", "after", "month end">>) =>
          ret.calculated_date = Strftime(PlusDays(MonthEnd(today), 30))

----------------------------------------------------------------------------
(* Claims about the dashboard, checked under Spec. *)

\* C4: in every state of the dashboard, each obligation stored in the session
\* has a risk_score and a risk_category, and the category is
\* categorize_risk_level of the stored score; this holds after the handler has
\* recomputed compliance_status as well.
C4_CategoryFromScore ==
    \A i \in 1..Len(session.obligations) :
        LET ob == session.obligations[i]
        IN  /\ {"risk_score", "risk_category"} \subseteq DOMAIN ob
            /\ ob["risk_category"] = categorize_risk_level(ob["risk_score"])

\* the handler has stored an obligation that it scored 50 as Compliant and then
\* found Missed
C4_Witness ==
    /\ call = "Extract Obligations"
    /\ \E i \in 1..Len(session.obligations) :
          /\ session.obligations[i]["compliance_status"] = "Missed"
          /\ session.obligations[i]["risk_score"] = 50
          /\ session.obligations[i]["risk_category"] = "Medium"

\* the page has just been shown: the script ran, with or without the button
Displayed == call \in {"Extract Obligations", "rerun"} /\ ret.view = "dashboard"

\* C11: whenever the dashboard shows the obligations, every row's status is
\* get_compliance_status of the row's next_deadline at the date of the display.
C11_DisplayedStatusIsCurrent ==
    Displayed =>
        \A i \in 1..Len(ret.table) :
            ret.table[i].Status = get_compliance_status(ret.table[i].NextDeadline, today)

\* the next_deadline is empty, is "Upon Event" or contains "End of"
IsSentinel(next_deadline) ==
    \/ next_deadline = Literal("")
    \/ next_deadline = Literal("Upon Event")
    \/ next_deadline.form = "literal" /\ next_deadline.text \in EndOfLiterals

\* C12: after the handler has run, every stored obligation whose next_deadline
\* is empty, is "Upon Event" or contains "End of" has compliance_status
\* Compliant, at every date.
C12_SentinelIsCompliant ==
    \A i \in 1..Len(session.obligations) :
        IsSentinel(session.obligations[i]["next_deadline"]) =>
            session.obligations[i]["compliance_status"] = "Compliant"

\* the handler has stored an obligation due at the end of the month
C12_Witness ==
    /\ call = "Extract Obligations"
    /\ \E i \in 1..Len(session.obligations) :
          /\ session.obligations[i]["next_deadline"] = Literal("End of Month")
          /\ session.obligations[i]["compliance_status"] = "Compliant"

----------------------------------------------------------------------------
(* Claims about the extractor, checked under SpecExtract. *)

\* whether some pattern of financial_covenant_patterns is found in the sentence
MatchesFinancialCovenant(sentence) ==
    \/ MatchesThen(sentence, CovenantHeadAtoms, CovenantTailAtoms, CovenantWholeAtoms)
    \/ MatchesIn(sentence, CovenantNameAtoms)
    \/ MatchesThen(sentence, LimitHeadAtoms, LimitTailAtoms, LimitWholeAtoms)

\* whether some pattern of reporting_patterns is found in the sentence
MatchesReporting(sentence) ==
    \/ MatchesThen(sentence, ProvideHeadAtoms, ProvideTailAtoms, ProvideWholeAtoms)
    \/ MatchesThen(sentence, PeriodicHeadAtoms, PeriodicTailAtoms, PeriodicWholeAtoms)
    \/ MatchesIn(sentence, StatementAtoms)

\* whether some pattern of notification_patterns is found in the sentence
MatchesNotification(sentence) ==
    \/ MatchesThen(sentence, NotifyHeadAtoms, NotifyTailAtoms, NotifyWholeAtoms)
    \/ MatchesPrompt(sentence)
    \/ MatchesThen(sentence, NoticeHeadAtoms, NoticeTailAtoms, NoticeWholeAtoms)

FirstMatchingType(sentence) ==
    IF MatchesFinancialCovenant(sentence) THEN "Financial Covenant"
    ELSE IF MatchesReporting(sentence) THEN "Reporting"
    ELSE IF MatchesNotification(sentence) THEN "Notification"
    ELSE NoType

TrimmedLength(fragment) == Len(StringOf(fragment))

IsTwentyOrMore(fragment) == TrimmedLength(fragment) >= 20

\* C14: the splitter discards a fragment if and only if its trimmed length is
\* shorter than 20 characters: it returns the fragments of 20 characters or more,
\* in order, and extract_obligations emits no obligation for a fragment of fewer
\* than 20 characters and one for every fragment of 20 or more that has a type.
C14_DiscardsIffShorterThan20 ==
    /\ call = "_split_into_sentences" => ret = SelectSeq(arg.fragments, IsTwentyOrMore)
    /\ call = "extract_obligations" =>
          \A i \in 1..Len(arg.fragments) :
              (\E k \in 1..Len(ret) : ret[k]["description"] = StringOf(arg.fragments[i]))
                  <=> /\ IsTwentyOrMore(arg.fragments[i])
                      /\ FirstMatchingType(arg.fragments[i]) # NoType

\* whether some keyword of high_risk_keywords is found in the sentence
MatchesHighRisk(sentence) ==
    \E i \in 1..Len(sentence) : HighRiskKeywordsOf(sentence[i]) # {}

\* whether some keyword of medium_risk_keywords is found in the sentence
MatchesMediumRisk(sentence) ==
    \E i \in 1..Len(sentence) : MediumRiskKeywordsOf(sentence[i]) # {}

\* C15: _calculate_risk_level returns High whenever a high-risk keyword is found
\* in the sentence, however many medium-risk keywords are, Medium whenever no
\* high-risk keyword but some medium-risk keyword is found, and Low exactly when
\* no keyword of either list is found.
C15_RiskLevelByKeywords ==
    call = "_calculate_risk_level" =>
        /\ MatchesHighRisk(arg.sentence) => ret = "High"
        /\ ~MatchesHighRisk(arg.sentence) /\ MatchesMediumRisk(arg.sentence) => ret = "Medium"
        /\ ret = "Low" <=> ~MatchesHighRisk(arg.sentence) /\ ~MatchesMediumRisk(arg.sentence)

\* a sentence with a keyword of each list is High
C15_Witness ==
    /\ call = "_calculate_risk_level"
    /\ MatchesHighRisk(arg.sentence)
    /\ MatchesMediumRisk(arg.sentence)
    /\ ret = "High"

----------------------------------------------------------------------------
(* Claims about failures, checked under SpecDeadline. *)

\* the arguments of the calls of calculate_expected_date that parse_deadline
\* makes for the text
DatedCalls(text) ==
    (IF AfterPatternStarts(text) = {} THEN {}
     ELSE LET i == Leftmost(AfterPatternStarts(text))
          IN  { <<text[i + 1], text[i + 2], SubSeq(text, i + 4, Len(text))>> })
    \cup
    (IF BeforePatternStarts(text) = {} THEN {}
     ELSE LET i == Leftmost(BeforePatternStarts(text))
          IN  { <<text[i], text[i + 1], SubSeq(text, i + 3, Len(text))>> })

\* parse_deadline calls calculate_expected_date for the text, and every call fails
EveryDateFails(text, now) ==
    /\ DatedCalls(text) # {}
    /\ \A c \in DatedCalls(text) : calculate_expected_date(c[1], c[2], c[3], now) = None

HasOverride(text) ==
    \/ \E i \in 1..Len(text) : text[i] \in ImmediateAtoms
    \/ PeriodEndStarts(text) # {}

CalendarDaysTo(deadline_date, now) == Strptime(deadline_date).day - now.day

\* C19: for a deadline string of the form YYYY-MM-DD that lies d calendar days
\* from the current date, get_compliance_status returns Missed if and only if
\* d < 0, Due Soon if and only if 0 <= d <= 7, and Compliant if and only if
\* d > 7, at whatever time of the day it is called.
C19_StatusByCalendarDays ==
    call = "get_compliance_status" /\ StrptimeParses(arg.deadline_date) =>
        LET d == CalendarDaysTo(arg.deadline_date, today)
        IN  /\ ret = "Missed" <=> d < 0
            /\ ret = "Due Soon" <=> 0 <= d /\ d <= 7
            /\ ret = "Compliant" <=> d > 7

----------------------------------------------------------------------------
(* Claims about the stored scores of the dashboard, checked under Spec. *)

HasStoredHigh(obligation) == Get(obligation, "risk_category", "") = "High"

\* C20: after the pipeline of the Extract Obligations handler, the stored
\* scoring agrees with the recomputed one: the stored risk_score of every
\* obligation is calculate_risk_score of the obligation as it is stored, and
\* get_high_risk_obligations returns exactly the obligations whose stored
\* risk_category is High.
C20_StoredScoreIsCurrent ==
    /\ \A i \in 1..Len(session.obligations) :
          session.obligations[i]["risk_score"]
              = calculate_risk_score(session.obligations[i])
    /\ get_high_risk_obligations(session.obligations)
          = SelectSeq(session.obligations, HasStoredHigh)

====
